---- MODULE Spec2Model ----
(***************************************************************************)
(* A model of the ECH tunnel: the edge relay session of src/_worker.js     *)
(* (handleSession), and the client's dial loop and ECH store of            *)
(* src/websocket/websocket.go (DialWithECH, ECHManager).                   *)
(*                                                                         *)
(* The edge session runs on a single-threaded event loop: every action of  *)
(* the session is one synchronous run of a listener or of an async         *)
(* function between two awaits.  A suspended async function is an entry of *)
(* `tasks`; what the awaited platform call answers is chosen by the        *)
(* environment when the task is resumed.                                   *)
(***************************************************************************)
EXTENDS Integers, Sequences, FiniteSets, TLC

\* ---------------------------------------------------------------- bounds

\* writes to the outbound socket one session issues
MaxWrites == 2
\* chunks of the outbound socket one session forwards to the peer
MaxChunks == 1
\* read errors after which the outbound socket raises no more of them
MaxReadErrs == 4

\* ------------------------------------------------------- program constants

\* `connectionAttempts < 3`
MaxRestarts == 3
\* the value of a handle that holds no object (undefined / null)
NoHandle == 0

\* --------------------------------------------------------- session state

VARIABLES
    remoteSocket,        \* handle: id of the outbound socket, or NoHandle
    remoteWriter,        \* handle: id of the socket whose writer is held
    remoteReader,        \* handle: id of the socket whose reader is held
    isClosed,
    isConnecting,
    connectionAttempts,
    wsState,             \* webSocket.readyState: 1 open, 2 closing, 3 closed
    wsOut,               \* frames the peer has been sent, in order
    tasks,               \* suspended async functions of the session
    nSock,               \* sockets connect() has returned so far
    openSocks,           \* ids of the sockets returned and not yet closed
    hist,                \* what has happened so far (observation only)
    lastOp               \* the step taken last (observation only)

\* ------------------------------------------------------- ECHManager state

VARIABLES
    echList,             \* m.echList: a slice header, [ptr, len]
    wlock,               \* echListMu is held by a writer
    rlocks,              \* readers holding echListMu
    epc,                 \* where each goroutine stands
    eloc,                \* each goroutine's locals
    returned,            \* what GetECHList has returned (observation only)
    stored               \* what Prepare has stored (observation only)

\* ------------------------------------------------------ DialWithECH state

VARIABLES
    maxRetries,          \* the argument of DialWithECH
    addrOk,              \* ParseServerAddr accepts c.serverAddr
    attempt,
    dpc,                 \* start / build / dial / done
    dRes,                \* what DialWithECH returned: [kind, err]
    lastErr,             \* [at, msg]: the attempt that set it and the message
    refreshes,           \* calls of echManager.Refresh (observation only)
    dlog,                \* how each attempt ended (observation only)
    delays               \* the time.Sleep calls, in ms (observation only)

\* ------------------------------------------------------------ fetch state

VARIABLES
    request,             \* the request fetch is called with
    response,            \* what fetch returned, or NoResponse
    sessions             \* calls of handleSession

fvars == <<request, response, sessions>>

\* ----------------------------------------------------------- parser state

VARIABLES
    dnsMsg,              \* the DNS response the resolver got: its answers
    cut,                 \* how many of its bytes reached parseDNSResponse
    parsed               \* what parseDNSResponse returned, or NotParsed

pvars == <<dnsMsg, cut, parsed>>

evars == <<wlock, rlocks, epc, eloc, returned, stored>>

dvars == <<maxRetries, addrOk, attempt, dpc, dRes, lastErr, refreshes, dlog,
           delays>>

svars == <<remoteSocket, remoteWriter, remoteReader, isClosed, isConnecting,
           connectionAttempts, wsState, wsOut, tasks, nSock, openSocks,
           hist, lastOp>>

\* The session as one value, so that the closures of handleSession are
\* operators from session to session.
St ==
    [remoteSocket |-> remoteSocket, remoteWriter |-> remoteWriter,
     remoteReader |-> remoteReader, isClosed |-> isClosed,
     isConnecting |-> isConnecting, connectionAttempts |-> connectionAttempts,
     wsState |-> wsState, wsOut |-> wsOut, tasks |-> tasks, nSock |-> nSock,
     openSocks |-> openSocks, hist |-> hist, op |-> lastOp]

Commit(s) ==
    /\ remoteSocket' = s.remoteSocket
    /\ remoteWriter' = s.remoteWriter
    /\ remoteReader' = s.remoteReader
    /\ isClosed' = s.isClosed
    /\ isConnecting' = s.isConnecting
    /\ connectionAttempts' = s.connectionAttempts
    /\ wsState' = s.wsState
    /\ wsOut' = s.wsOut
    /\ tasks' = s.tasks
    /\ nSock' = s.nSock
    /\ openSocks' = s.openSocks
    /\ hist' = s.hist
    /\ lastOp' = s.op
    /\ UNCHANGED <<echList, evars, dvars, fvars, pvars>>

HistInit ==
    [teardowns |-> 0,        \* runs of cleanup's body
     wsCloses |-> 0,         \* calls of webSocket.close
     noopCleanup |-> FALSE,  \* cleanup was called on a closed session
     connCalls |-> 0,        \* calls of connect() for the CONNECT being served
     attemptFails |-> 0,     \* attempts of that CONNECT that failed
     fbSupplied |-> FALSE,   \* the CONNECT being served named a fallback host
     primaryFail |-> "none", \* how the primary attempt failed: cf / other
     connResult |-> "none",  \* none / pending / ok / failed
     nWrites |-> 0,          \* calls of remoteWriter.write
     restarts |-> 0]         \* restarts of the pump

SessionInit ==
    /\ remoteSocket = NoHandle
    /\ remoteWriter = NoHandle
    /\ remoteReader = NoHandle
    /\ isClosed = FALSE
    /\ isConnecting = FALSE
    /\ connectionAttempts = 0
    /\ wsState = 1
    /\ wsOut = <<>>
    /\ tasks = <<>>
    /\ nSock = 0
    /\ openSocks = {}
    /\ hist = HistInit
    /\ lastOp = "init"

\* ------------------------------------------------------ session closures

\* safeCloseWebSocket: close() only in readyState 1 or 2.
SafeCloseWebSocket(s) ==
    IF s.wsState \in {1, 2}
    THEN [s EXCEPT !.wsState = IF @ = 1 THEN 2 ELSE 3,
                   !.hist.wsCloses = @ + 1]
    ELSE s

CleanupBody(s) ==
    SafeCloseWebSocket(
        [s EXCEPT !.isClosed = TRUE,
                  !.isConnecting = FALSE,
                  !.openSocks = @ \ {s.remoteSocket},
                  !.remoteWriter = NoHandle,
                  !.remoteReader = NoHandle,
                  !.remoteSocket = NoHandle,
                  !.hist.teardowns = @ + 1])

\* cleanup without its `if (isClosed) return`
CleanupUnguarded(s) ==
    CleanupBody(s)

cleanup(s) ==
    IF s.isClosed
    THEN [s EXCEPT !.hist.noopCleanup = TRUE]
    ELSE CleanupBody(s)

Op(s, name) ==
    [s EXCEPT !.op = name]

\* webSocket.send(frame): raises unless the WebSocket is open.
WsSendOk(s) ==
    s.wsState = 1

WsSend(s, frame) ==
    IF WsSendOk(s)
    THEN [s EXCEPT !.wsOut = Append(@, frame)]
    ELSE s

\* the listener's catch with its two statements in the other order
HandlerCatchCloseFirst(s) ==
    WsSend(cleanup(s), "ERROR")

\* the message listener's catch: try { send('ERROR:'+msg) } catch {}; cleanup()
HandlerCatch(s) ==
    cleanup(WsSend(s, "ERROR"))

\* the end of pumpRemoteToWebSocket
PumpEnd(s) ==
    IF ~s.isClosed
    THEN cleanup(WsSend(s, "CLOSE"))
    ELSE s

\* the head of the pump's loop, run when the pump is started and after each
\* chunk: suspend in remoteReader.read(), or leave the loop.
PumpLoop(s) ==
    IF ~s.isClosed /\ s.remoteReader # NoHandle
    THEN [s EXCEPT !.tasks = Append(@, [k |-> "pump", pc |-> "read"])]
    ELSE PumpEnd(s)

RemoveAt(seq, i) ==
    SubSeq(seq, 1, i - 1) \o SubSeq(seq, i + 1, Len(seq))

\* -------------------------------------------------------- connectToRemote

\* An error is known by the class of its message: "cf" holds one of the
\* substrings isCFError looks for, "other" holds none.
ErrorKinds == {"cf", "other"}

\* every error is taken for an edge-platform error
IsCFErrorAlways(err) ==
    TRUE

isCFError(err) ==
    err = "cf"

\* what connect() answers: a socket, or an error raised at the call
ConnectOutcomes == {"sock"} \cup ErrorKinds

\* attempts = [null, ...fallbackIPs]
NAttempts(fb) ==
    IF fb THEN 2 ELSE 1

\* the outer catch of connectToRemote, then the listener's catch
ConnectThrow(s) ==
    HandlerCatch(Op([s EXCEPT !.isConnecting = FALSE,
                              !.hist.connResult = "failed"], "connect_failed"))

\* the attempt's catch that leaves the failed socket open
AttemptReleaseLeaky(s) ==
    [s EXCEPT !.remoteWriter = NoHandle,
              !.remoteReader = NoHandle,
              !.remoteSocket = NoHandle]

\* the release of the handles in the attempt's catch
AttemptRelease(s) ==
    [s EXCEPT !.openSocks = @ \ {s.remoteSocket},
              !.remoteWriter = NoHandle,
              !.remoteReader = NoHandle,
              !.remoteSocket = NoHandle]

RECURSIVE ConnectFrom(_, _, _, _, _)
RECURSIVE AttemptCatch(_, _, _, _, _, _)

\* iteration i of the loop over attempts, from its head to its first await;
\* outs[i + 1] is what connect() answers in iteration i.
ConnectFrom(s, i, ff, fb, outs) ==
    LET s1 == [s EXCEPT !.hist.connCalls = @ + 1]
        id == s.nSock + 1
    IN  IF outs[i + 1] = "sock"
        THEN [s1 EXCEPT !.nSock = id,
                        !.openSocks = @ \cup {id},
                        !.remoteSocket = id,
                        !.tasks = Append(@, [k |-> "conn", pc |-> "opened",
                                             i |-> i, ff |-> ff, fb |-> fb])]
        ELSE AttemptCatch(s1, i, ff, fb, outs[i + 1], outs)

\* the catch of iteration i: release the handles, then rethrow or go on to
\* the next attempt
AttemptCatch(s, i, ff, fb, err, outs) ==
    LET s1 == [AttemptRelease(s) EXCEPT
                   !.hist.attemptFails = @ + 1,
                   !.hist.primaryFail = IF i = 0 THEN err ELSE @]
    IN  IF ~isCFError(err) \/ i = NAttempts(fb) - 1
        THEN ConnectThrow(s1)
        ELSE ConnectFrom(Op(s1, "connect_fallback"), i + 1, ff, fb, outs)

\* connectToRemote without its guard
ConnectBusyNever(s) ==
    FALSE

\* the guard of connectToRemote
ConnectBusy(s) ==
    s.isConnecting \/ s.remoteSocket # NoHandle

connectToRemote(s, ff, fb, outs) ==
    IF ConnectBusy(s)
    THEN HandlerCatch(Op(s, "connect_rejected"))
    ELSE ConnectFrom(Op([s EXCEPT !.isConnecting = TRUE,
                                  !.connectionAttempts = 0,
                                  !.hist.fbSupplied = fb,
                                  !.hist.connCalls = 0,
                                  !.hist.attemptFails = 0,
                                  !.hist.primaryFail = "none",
                                  !.hist.connResult = "pending"], "connect"),
                     0, ff, fb, outs)

\* after the last await of a successful attempt
ConnEstablished(s, t, outs) ==
    LET s1 == [s EXCEPT !.isConnecting = FALSE]
    IN  IF WsSendOk(s1)
        THEN PumpLoop(Op([WsSend(s1, "CONNECTED") EXCEPT !.hist.connResult = "ok"],
                         "connected"))
        ELSE AttemptCatch(WsSend(s1, "CONNECTED"), t.i, t.ff, t.fb, "other", outs)

\* the reply sent as soon as the socket is open, before firstFrame is written
ConnOpenedReplyFirst(s, t, r, outs) ==
    IF r # "ok"
    THEN AttemptCatch(s, t.i, t.ff, t.fb, r, outs)
    ELSE IF s.remoteSocket = NoHandle
    THEN AttemptCatch(s, t.i, t.ff, t.fb, "other", outs)
    ELSE LET s1 == [s EXCEPT !.remoteWriter = s.remoteSocket,
                             !.remoteReader = s.remoteSocket]
         IN  IF t.ff
             THEN Op([WsSend(s1, "CONNECTED") EXCEPT
                          !.hist.nWrites = @ + 1,
                          !.tasks = Append(@, [t EXCEPT !.pc = "write"])],
                     "first_frame_write")
             ELSE ConnEstablished(s1, t, outs)

\* resumed from `await remoteSocket.opened` with answer r
ConnOpened(s, t, r, outs) ==
    IF r # "ok"
    THEN AttemptCatch(s, t.i, t.ff, t.fb, r, outs)
    ELSE IF s.remoteSocket = NoHandle
    THEN \* remoteSocket.writable of null: a TypeError
         AttemptCatch(s, t.i, t.ff, t.fb, "other", outs)
    ELSE LET s1 == [s EXCEPT !.remoteWriter = s.remoteSocket,
                             !.remoteReader = s.remoteSocket]
         IN  IF t.ff
             THEN Op([s1 EXCEPT !.hist.nWrites = @ + 1,
                                !.tasks = Append(@, [t EXCEPT !.pc = "write"])],
                     "first_frame_write")
             ELSE ConnEstablished(s1, t, outs)

\* resumed from `await remoteWriter.write(firstFrame)` with answer r
ConnWritten(s, t, r, outs) ==
    IF r # "ok"
    THEN AttemptCatch(s, t.i, t.ff, t.fb, r, outs)
    ELSE ConnEstablished(s, t, outs)

\* ------------------------------------------------- pumpRemoteToWebSocket

\* the restart test without its cap
MayRestartUncapped(s) ==
    ~s.isClosed

\* `!isClosed && connectionAttempts < 3`
MayRestart(s) ==
    ~s.isClosed /\ s.connectionAttempts < MaxRestarts

\* resumed from `await remoteReader.read()` with answer r:
\* done, a chunk (value), a chunk of no bytes (empty), or a read error
ReadOutcomes == {"done", "value", "empty", "error"}

PumpRead(s, r) ==
    CASE r = "done" -> PumpEnd(Op(s, "pump_done"))
      [] r \in {"value", "empty"} ->
            IF s.wsState # 1
            THEN PumpEnd(Op(s, "pump_ws_gone"))
            ELSE PumpLoop(Op(IF r = "value" THEN WsSend(s, "BIN") ELSE s,
                             "pump_chunk"))
      [] r = "error" ->
            IF MayRestart(s)
            THEN Op([s EXCEPT !.connectionAttempts = @ + 1,
                              !.tasks = Append(@, [k |-> "pump", pc |-> "backoff"])],
                    "pump_backoff")
            ELSE PumpEnd(Op(s, "pump_give_up"))

\* the end of the backoff without its `remoteSocket?.readable` test
PumpBackoffOverUnchecked(s, g) ==
    PumpLoop(Op([s EXCEPT !.remoteReader = s.remoteSocket,
                          !.hist.restarts = @ + 1], "pump_restart"))

\* resumed from the backoff timer; g says whether getReader() answers a
\* reader or raises
PumpBackoffOver(s, g) ==
    IF s.remoteSocket # NoHandle
    THEN IF g
         THEN PumpLoop(Op([s EXCEPT !.remoteReader = s.remoteSocket,
                                    !.hist.restarts = @ + 1], "pump_restart"))
         ELSE PumpEnd(Op(s, "pump_reader_lost"))
    ELSE PumpEnd(Op(s, "pump_abort"))

\* ------------------------------------------------------- message listener

Frames ==
    [type : {"CONNECT"}, target : BOOLEAN, ff : BOOLEAN, fb : BOOLEAN]
    \cup [type : {"DATA", "BIN", "CLOSE", "TEXT"},
          target : {FALSE}, ff : {FALSE}, fb : {FALSE}]

\* forwarding that raises when there is no writer
ForwardDataStrict(s) ==
    IF s.remoteWriter # NoHandle
    THEN Op([s EXCEPT !.hist.nWrites = @ + 1,
                      !.tasks = Append(@, [k |-> "data", pc |-> "write"])],
            "data_write")
    ELSE HandlerCatch(Op(s, "data_ignored"))

\* `if (remoteWriter) await remoteWriter.write(...)`, to its await
ForwardData(s) ==
    IF s.remoteWriter # NoHandle
    THEN Op([s EXCEPT !.hist.nWrites = @ + 1,
                      !.tasks = Append(@, [k |-> "data", pc |-> "write"])],
            "data_write")
    ELSE Op(s, "data_ignored")

MessageListener(s, f, outs) ==
    IF s.isClosed
    THEN Op(s, "msg_after_close")
    ELSE CASE f.type = "CONNECT" ->
                IF ~f.target
                THEN HandlerCatch(Op(s, "connect_invalid"))
                ELSE connectToRemote(s, f.ff, f.fb, outs)
           [] f.type \in {"DATA", "BIN"} -> ForwardData(s)
           [] f.type = "CLOSE" -> cleanup(Op(s, "close_frame"))
           [] OTHER -> Op(s, "text_ignored")

\* resumed from `await remoteWriter.write(payload)` with answer r
DataWritten(s, r) ==
    IF r = "ok"
    THEN Op(s, "data_done")
    ELSE HandlerCatch(Op(s, "data_failed"))

\* ---------------------------------------------------------------- actions

AwaitOutcomes == {"ok"} \cup ErrorKinds

\* what the connect() calls still ahead of iteration i answer, one entry
\* per iteration; the entries of iterations that cannot come are fixed
OutcomeSeqs(i, fb) ==
    {outs \in [1..2 -> ConnectOutcomes] :
        \A n \in 1..2 : (n <= i \/ n > NAttempts(fb)) => outs[n] = "sock"}

Chunks(out) ==
    Cardinality({n \in DOMAIN out : out[n] = "BIN"})

\* a message event is dispatched to the listener
OnMessage ==
    \E f \in Frames :
        \E outs \in OutcomeSeqs(IF f.type = "CONNECT" /\ f.target THEN 0 ELSE 2,
                                 f.fb) :
            /\ f.type \in {"DATA", "BIN"} => hist.nWrites < MaxWrites
            /\ Commit(MessageListener(St, f, outs))

\* the WebSocket's close event: readyState has left 1 when it is dispatched
OnClose ==
    /\ wsState # 1
    /\ Commit(cleanup(Op(St, "close_event")))

\* the WebSocket's error event
OnError ==
    /\ Commit(cleanup(Op(St, "error_event")))

\* the peer or the transport closes the WebSocket; the events follow later
WsPeerCloses ==
    /\ \E n \in {2, 3} :
          /\ n > wsState
          /\ Commit(Op([St EXCEPT !.wsState = n], "ws_peer_closes"))

\* a suspended connectToRemote is resumed
ResumeConnect ==
    /\ \E n \in DOMAIN tasks, r \in AwaitOutcomes :
        \E outs \in OutcomeSeqs(IF tasks[n].k = "conn" THEN tasks[n].i + 1 ELSE 2,
                                 tasks[n].k = "conn" /\ tasks[n].fb) :
          LET t == tasks[n]
              s == [St EXCEPT !.tasks = RemoveAt(@, n)]
          IN  /\ t.k = "conn"
              /\ Commit(IF t.pc = "opened"
                        THEN ConnOpened(Op(s, "connect_opened"), t, r, outs)
                        ELSE ConnWritten(Op(s, "connect_written"), t, r, outs))

\* a suspended DATA or binary handler is resumed
ResumeData ==
    /\ \E n \in DOMAIN tasks, r \in AwaitOutcomes :
          /\ tasks[n].k = "data"
          /\ Commit(DataWritten([St EXCEPT !.tasks = RemoveAt(@, n)], r))

\* the pump is resumed from a read
ResumePumpRead ==
    /\ \E n \in DOMAIN tasks, r \in ReadOutcomes :
          /\ tasks[n].k = "pump"
          /\ tasks[n].pc = "read"
          /\ r = "value" => Chunks(wsOut) < MaxChunks
          /\ r = "error" => connectionAttempts < MaxReadErrs
          /\ Commit(PumpRead([St EXCEPT !.tasks = RemoveAt(@, n)], r))

\* the pump is resumed from its backoff timer
ResumePumpBackoff ==
    /\ \E n \in DOMAIN tasks, g \in BOOLEAN :
          /\ tasks[n].k = "pump"
          /\ tasks[n].pc = "backoff"
          /\ Commit(PumpBackoffOver([St EXCEPT !.tasks = RemoveAt(@, n)], g))

SessionNext ==
    \/ OnMessage
    \/ OnClose
    \/ OnError
    \/ WsPeerCloses
    \/ ResumeConnect
    \/ ResumeData
    \/ ResumePumpRead
    \/ ResumePumpBackoff

\* ===================================================================== fetch

\* `const TOKEN = 'xxx'`
TOKEN == "xxx"

\* what headers.get answers for a header the request does not carry (null)
NoHeader == "<null>"

\* The Upgrade header, which fetch takes apart, is the sequence of its
\* characters, or absent.
Header(text) ==
    [present |-> TRUE, text |-> text]

AbsentHeader ==
    [present |-> FALSE, text |-> <<>>]

Websocket == <<"w", "e", "b", "s", "o", "c", "k", "e", "t">>

\* String.prototype.toLowerCase, on the letters the requests are made of
LowerChar(c) ==
    CASE c = "W" -> "w"
      [] c = "E" -> "e"
      [] c = "B" -> "b"
      [] c = "S" -> "s"
      [] c = "O" -> "o"
      [] c = "C" -> "c"
      [] c = "K" -> "k"
      [] c = "T" -> "t"
      [] c = "H" -> "h"
      [] OTHER -> c

toLowerCase(s) ==
    [n \in 1..Len(s) |-> LowerChar(s[n])]

WhiteSpace == {" ", "\t"}

RECURSIVE trimStart(_)
trimStart(s) ==
    IF s # <<>> /\ Head(s) \in WhiteSpace THEN trimStart(Tail(s)) ELSE s

RECURSIVE trimEnd(_)
trimEnd(s) ==
    IF s # <<>> /\ s[Len(s)] \in WhiteSpace
    THEN trimEnd(SubSeq(s, 1, Len(s) - 1))
    ELSE s

\* String.prototype.trim
trim(s) ==
    trimEnd(trimStart(s))

\* the test without its toLowerCase
NotUpgradeCaseSensitive(h) ==
    ~h.present \/ h.text = <<>> \/ trim(h.text) # Websocket

\* `!upgradeHeader || upgradeHeader.trim().toLowerCase() !== 'websocket'`
NotUpgrade(h) ==
    ~h.present \/ h.text = <<>> \/ toLowerCase(trim(h.text)) # Websocket

\* new URL(request.url).pathname: the path of the URL, "/" when it has none;
\* the query is not part of it
Pathname(url) ==
    IF url.path = "" THEN "/" ELSE url.path

\* a token test that lets a request without the header pass
UnauthorizedIfPresent(p) ==
    TOKEN # "" /\ p # NoHeader /\ p # TOKEN

\* `TOKEN && request.headers.get('Sec-WebSocket-Protocol') !== TOKEN`
Unauthorized(p) ==
    TOKEN # "" /\ p # TOKEN

NoResponse ==
    [status |-> 0, protocol |-> NoHeader, webSocket |-> FALSE, started |-> 0]

Response(status) ==
    [status |-> status, protocol |-> NoHeader, webSocket |-> FALSE, started |-> 0]

\* fetch: the response, with the subprotocol header it carries, whether it
\* carries the client end of a WebSocketPair, and the calls of handleSession
\* made on the way.  No call inside the try raises, whatever the request.
fetch(r) ==
    IF NotUpgrade(r.upgrade)
    THEN IF Pathname(r.url) = "/" THEN Response(200) ELSE Response(426)
    ELSE IF Unauthorized(r.protocol)
    THEN Response(401)
    ELSE [status |-> 101,
          protocol |-> IF TOKEN # "" THEN TOKEN ELSE NoHeader,
          webSocket |-> TRUE,
          started |-> 1]

\* The Upgrade headers requests carry, each with whether it asks for the
\* websocket protocol (the protocol name is matched without regard to case
\* and to surrounding white space).
UpgradeHeaders ==
    {[h |-> AbsentHeader, ws |-> FALSE],
     [h |-> Header(<<>>), ws |-> FALSE],
     [h |-> Header(Websocket), ws |-> TRUE],
     [h |-> Header(<<"W", "e", "b", "S", "o", "c", "k", "e", "t">>), ws |-> TRUE],
     [h |-> Header(<<"W", "E", "B", "S", "O", "C", "K", "E", "T">>), ws |-> TRUE],
     [h |-> Header(<<" ">> \o Websocket \o <<" ", "\t">>), ws |-> TRUE],
     [h |-> Header(<<"h", "2", "c">>), ws |-> FALSE],
     [h |-> Header(Websocket \o <<"s">>), ws |-> FALSE],
     [h |-> Header(<<"w", "e", "b">>), ws |-> FALSE]}

\* the URLs: the path as sent, and whether a query follows
Urls ==
    [path : {"", "/", "/ws", "//"}, query : BOOLEAN]

\* the Sec-WebSocket-Protocol headers
ProtocolHeaders ==
    {NoHeader, "", TOKEN, "XXX", " xxx", "xxx, other", "other"}

Requests ==
    {[upgrade |-> u.h, url |-> l, protocol |-> p, method |-> m] :
        u \in UpgradeHeaders, l \in Urls, p \in ProtocolHeaders,
        m \in {"GET", "POST"}}

\* whether the request asks for the websocket protocol
AsksWebsocket(r) ==
    \E u \in UpgradeHeaders : u.h = r.upgrade /\ u.ws

FetchIdle ==
    /\ request \in {CHOOSE r \in Requests : TRUE}
    /\ response = NoResponse
    /\ sessions = 0

FetchInit ==
    /\ request \in Requests
    /\ response = NoResponse
    /\ sessions = 0

\* the worker answers the request
Fetch ==
    /\ response = NoResponse
    /\ response' = fetch(request)
    /\ sessions' = sessions + fetch(request).started
    /\ UNCHANGED <<request, svars, echList, evars, dvars, pvars>>

FetchNext ==
    Fetch

\* ================================================================ ECHManager

\* ECH configuration lists a resolver may answer
MaxBlobs == 2

Blobs == 1..MaxBlobs

\* the slice header of blob b: its array and its length
Slice(b) ==
    [ptr |-> b, len |-> b]

\* the zero value of a []byte
NilSlice ==
    [ptr |-> 0, len |-> 0]

\* what queryHTTPSRecord and the base64 decoding answer for one Prepare
PrepareOutcomes ==
    [kind : {"query_error", "empty", "decode_error"}, blob : {0}]
    \cup [kind : {"blob"}, blob : Blobs]

\* a Prepare that stores the blob whatever the resolver answered
PrepareStoresAlways(list, o) ==
    Slice(o.blob)

\* a Prepare that takes no answer for a failure
PrepareFailsNever(o) ==
    FALSE

\* the three error returns of Prepare: the resolver's error, an empty
\* answer, a base64 decode failure
PrepareFails(o) ==
    o.kind # "blob"

\* Prepare run by one goroutine alone: the stored list after it
PrepareAlone(list, o) ==
    IF PrepareFails(o) THEN list ELSE Slice(o.blob)

\* GetECHList run by one goroutine alone
GetECHListAlone(list) ==
    IF list.len = 0
    THEN [err |-> "ECH_not_loaded", val |-> NilSlice]
    ELSE [err |-> "nil", val |-> list]

Readers == {"r1", "r2"}

Writers == {"w1", "w2"}

StoreInit ==
    /\ wlock = FALSE
    /\ rlocks = 0
    /\ epc = [p \in Readers \cup Writers |-> "idle"]
    /\ eloc = [p \in Readers \cup Writers |-> NilSlice]
    /\ returned = {}
    /\ stored = {}

\* sync.RWMutex: Lock waits for the writer and the readers to leave
LockFree ==
    ~wlock /\ rlocks = 0

\* a read lock that does not wait for the writer
RLockFreeAlways ==
    TRUE

\* sync.RWMutex: RLock waits for the writer to leave
RLockFree ==
    ~wlock

Go(p, pc) ==
    epc' = [epc EXCEPT ![p] = pc]

\* Prepare, to m.echListMu.Lock(): the resolver is queried and the answer
\* decoded; an error, an empty answer or a decode failure returns the error.
PrepareCall(w) ==
    /\ epc[w] = "idle"
    /\ \E o \in PrepareOutcomes :
          IF PrepareFails(o)
          THEN /\ Go(w, "failed")
               /\ UNCHANGED eloc
          ELSE /\ eloc' = [eloc EXCEPT ![w] = Slice(o.blob)]
               /\ Go(w, "lock")
    /\ UNCHANGED <<echList, wlock, rlocks, returned, stored, svars, dvars, fvars, pvars>>

\* the caller has Prepare's error
PrepareFailed(w) ==
    /\ epc[w] = "failed"
    /\ Go(w, "idle")
    /\ UNCHANGED <<echList, wlock, rlocks, eloc, returned, stored, svars, dvars, fvars, pvars>>

PrepareLock(w) ==
    /\ epc[w] = "lock"
    /\ LockFree
    /\ wlock' = TRUE
    /\ Go(w, "w_ptr")
    /\ UNCHANGED <<echList, rlocks, eloc, returned, stored, svars, dvars, fvars, pvars>>

\* m.echList = raw: the words of the slice header are written one by one
PrepareWritePtr(w) ==
    /\ epc[w] = "w_ptr"
    /\ echList' = [echList EXCEPT !.ptr = eloc[w].ptr]
    /\ Go(w, "w_len")
    /\ UNCHANGED <<wlock, rlocks, eloc, returned, stored, svars, dvars, fvars, pvars>>

PrepareWriteLen(w) ==
    /\ epc[w] = "w_len"
    /\ echList' = [echList EXCEPT !.len = eloc[w].len]
    /\ Go(w, "unlock")
    /\ UNCHANGED <<wlock, rlocks, eloc, returned, stored, svars, dvars, fvars, pvars>>

PrepareUnlock(w) ==
    /\ epc[w] = "unlock"
    /\ wlock' = FALSE
    /\ stored' = stored \cup {eloc[w]}
    /\ Go(w, "idle")
    /\ UNCHANGED <<echList, rlocks, eloc, returned, svars, dvars, fvars, pvars>>

GetRLock(r) ==
    /\ epc[r] = "idle"
    /\ RLockFree
    /\ rlocks' = rlocks + 1
    /\ Go(r, "r_check")
    /\ UNCHANGED <<echList, wlock, eloc, returned, stored, svars, dvars, fvars, pvars>>

\* `if len(m.echList) == 0`: the error return runs the deferred RUnlock
GetCheckLen(r) ==
    /\ epc[r] = "r_check"
    /\ IF echList.len = 0
       THEN /\ rlocks' = rlocks - 1
            /\ Go(r, "idle")
       ELSE /\ Go(r, "r_ptr")
            /\ UNCHANGED rlocks
    /\ UNCHANGED <<echList, wlock, eloc, returned, stored, svars, dvars, fvars, pvars>>

\* `return m.echList, nil`: the words of the slice header are read one by one
GetReadPtr(r) ==
    /\ epc[r] = "r_ptr"
    /\ eloc' = [eloc EXCEPT ![r].ptr = echList.ptr]
    /\ Go(r, "r_len")
    /\ UNCHANGED <<echList, wlock, rlocks, returned, stored, svars, dvars, fvars, pvars>>

GetReadLen(r) ==
    /\ epc[r] = "r_len"
    /\ eloc' = [eloc EXCEPT ![r].len = echList.len]
    /\ Go(r, "runlock")
    /\ UNCHANGED <<echList, wlock, rlocks, returned, stored, svars, dvars, fvars, pvars>>

GetRUnlock(r) ==
    /\ epc[r] = "runlock"
    /\ rlocks' = rlocks - 1
    /\ returned' = returned \cup {eloc[r]}
    /\ Go(r, "idle")
    /\ UNCHANGED <<echList, wlock, eloc, stored, svars, dvars, fvars, pvars>>

StoreNext ==
    \/ \E w \in Writers : PrepareCall(w)
    \/ \E w \in Writers : PrepareFailed(w)
    \/ \E w \in Writers : PrepareLock(w)
    \/ \E w \in Writers : PrepareWritePtr(w)
    \/ \E w \in Writers : PrepareWriteLen(w)
    \/ \E w \in Writers : PrepareUnlock(w)
    \/ \E r \in Readers : GetRLock(r)
    \/ \E r \in Readers : GetCheckLen(r)
    \/ \E r \in Readers : GetReadPtr(r)
    \/ \E r \in Readers : GetReadLen(r)
    \/ \E r \in Readers : GetRUnlock(r)


\* ================================================================ DNS parser

\* `TypeHTTPS = 65`
TypeHTTPS == 65

\* the SvcParamKey parseHTTPSRecord looks for (`key == 5`)
KeyECH == 5

\* A buffer is the sequence of its bytes; offsets count from 0 as in the code.
Max(a, b) ==
    IF a >= b THEN a ELSE b

\* b[i]; an index outside the buffer (a panic in the code) reads as 0 here
\* and shows in the high-water mark the parser keeps of its reads
ByteAt(b, i) ==
    IF i >= 0 /\ i < Len(b) THEN b[i + 1] ELSE 0

\* binary.BigEndian.Uint16(b[i : i+2])
Uint16(b, i) ==
    ByteAt(b, i) * 256 + ByteAt(b, i + 1)

\* b[lo:hi]
SubBuf(b, lo, hi) ==
    SubSeq(b, lo + 1, IF hi <= Len(b) THEN hi ELSE Len(b))

\* the alphabet of base64.StdEncoding
B64Alphabet ==
    <<"A", "B", "C", "D", "E", "F", "G", "H", "I", "J", "K", "L", "M",
      "N", "O", "P", "Q", "R", "S", "T", "U", "V", "W", "X", "Y", "Z",
      "a", "b", "c", "d", "e", "f", "g", "h", "i", "j", "k", "l", "m",
      "n", "o", "p", "q", "r", "s", "t", "u", "v", "w", "x", "y", "z",
      "0", "1", "2", "3", "4", "5", "6", "7", "8", "9", "+", "/">>

B64Char(n) ==
    B64Alphabet[n + 1]

\* base64.StdEncoding.EncodeToString: 3 bytes to 4 characters, the last
\* group padded with "="
RECURSIVE Base64(_)
Base64(v) ==
    CASE Len(v) = 0 -> <<>>
      [] Len(v) = 1 ->
            <<B64Char(v[1] \div 4), B64Char((v[1] % 4) * 16), "=", "=">>
      [] Len(v) = 2 ->
            <<B64Char(v[1] \div 4),
              B64Char((v[1] % 4) * 16 + v[2] \div 16),
              B64Char((v[2] % 16) * 4), "=">>
      [] OTHER ->
            <<B64Char(v[1] \div 4),
              B64Char((v[1] % 4) * 16 + v[2] \div 16),
              B64Char((v[2] % 16) * 4 + v[3] \div 64),
              B64Char(v[3] % 64)>> \o Base64(SubSeq(v, 4, Len(v)))

\* `for offset < len(response) && response[offset] != 0 {
\*      offset += int(response[offset]) + 1 }`: the offset the loop ends at,
\* and the high-water mark of the reads
RECURSIVE SkipName(_, _, _)
SkipName(b, off, hi) ==
    IF off < Len(b) /\ ByteAt(b, off) # 0
    THEN SkipName(b, off + ByteAt(b, off) + 1, Max(hi, off + 1))
    ELSE [off |-> off, hi |-> IF off < Len(b) THEN Max(hi, off + 1) ELSE hi]

\* the loop over the labels of the record's target name
RECURSIVE TargetName(_, _, _)
TargetName(d, off, hi) ==
    IF off < Len(d) /\ ByteAt(d, off) # 0
    THEN LET step == ByteAt(d, off) + 1
         IN  IF step <= 0 \/ off + step > Len(d)
             THEN [ok |-> FALSE, off |-> off, hi |-> Max(hi, off + 1)]
             ELSE TargetName(d, off + step, Max(hi, off + 1))
    ELSE [ok |-> TRUE, off |-> off,
          hi |-> IF off < Len(d) THEN Max(hi, off + 1) ELSE hi]

\* `length == 0 || offset+int(length) > len(data)`
ParamEnds(length, off, n) ==
    length = 0 \/ off + length > n

\* `for offset+4 <= len(data)`: the loop over the SvcParams
RECURSIVE SvcParams(_, _, _)
SvcParams(d, off, hi) ==
    IF off + 4 <= Len(d)
    THEN LET key == Uint16(d, off)
             length == Uint16(d, off + 2)
             o1 == off + 4
             h1 == Max(hi, off + 4)
         IN  IF ParamEnds(length, o1, Len(d))
             THEN [val |-> <<>>, hi |-> h1]
             ELSE IF key = KeyECH
             THEN [val |-> Base64(SubBuf(d, o1, o1 + length)),
                   hi |-> Max(h1, o1 + length)]
             ELSE SvcParams(d, o1 + length, Max(h1, o1 + length))
    ELSE [val |-> <<>>, hi |-> hi]

\* parseHTTPSRecord: the string it returns (<<>> is ""), and the high-water
\* mark of its reads of data
parseHTTPSRecord(d) ==
    IF Len(d) < 2 \/ 2 >= Len(d)
    THEN [val |-> <<>>, hi |-> 0]
    ELSE IF ByteAt(d, 2) = 0
    THEN SvcParams(d, 3, 3)
    ELSE LET t == TargetName(d, 2, 3)
         IN  IF t.ok
             THEN SvcParams(d, t.off + 1, t.hi)
             ELSE [val |-> <<>>, hi |-> t.hi]

\* a record header read without the test that it is there
RecordHeaderFitsAlways(off, n) ==
    TRUE

\* `if offset+10 > len(response) { break }`, negated
RecordHeaderFits(off, n) ==
    off + 10 <= n

\* the loop over the answers, from answer i at offset off; oob: a record
\* handed to parseHTTPSRecord so far was read outside its data
RECURSIVE Answers(_, _, _, _, _, _)
Answers(b, off, i, ancount, hi, oob) ==
    IF i >= ancount \/ off >= Len(b)
    THEN [val |-> <<>>, hi |-> hi, oob |-> oob]
    ELSE LET h1 == Max(hi, off + 1)
             n == IF (ByteAt(b, off) \div 64) % 4 = 3
                  THEN [off |-> off + 2, hi |-> h1]
                  ELSE LET s == SkipName(b, off, h1)
                       IN  [off |-> s.off + 1, hi |-> s.hi]
         IN  IF ~RecordHeaderFits(n.off, Len(b))
             THEN [val |-> <<>>, hi |-> n.hi, oob |-> oob]
             ELSE LET rrType == Uint16(b, n.off)
                      dataLen == Uint16(b, n.off + 8)
                      o3 == n.off + 10
                      h3 == Max(n.hi, n.off + 10)
                  IN  IF o3 + dataLen > Len(b)
                      THEN [val |-> <<>>, hi |-> h3, oob |-> oob]
                      ELSE LET data == SubBuf(b, o3, o3 + dataLen)
                               h4 == Max(h3, o3 + dataLen)
                               rec == parseHTTPSRecord(data)
                               oob1 == oob \/ (rrType = TypeHTTPS
                                               /\ rec.hi > Len(data))
                           IN  IF rrType = TypeHTTPS /\ rec.val # <<>>
                               THEN [val |-> rec.val, hi |-> h4, oob |-> oob1]
                               ELSE Answers(b, o3 + dataLen, i + 1, ancount,
                                            h4, oob1)

\* parseDNSResponse: the error and the string it returns, and whether any
\* read fell outside the buffer it was made on
parseDNSResponse(b) ==
    IF Len(b) < 12
    THEN [err |-> "too_short", val |-> <<>>, oob |-> FALSE]
    ELSE LET ancount == Uint16(b, 6)
         IN  IF ancount = 0
             THEN [err |-> "no_answers", val |-> <<>>, oob |-> FALSE]
             ELSE LET q == SkipName(b, 12, 8)
                      r == Answers(b, q.off + 5, 0, ancount, q.hi, FALSE)
                  IN  [err |-> "nil", val |-> r.val,
                       oob |-> r.oob \/ r.hi > Len(b)]

\* ---- the responses the resolver gets

\* bytes of the longest ECH configuration list a response carries
MaxEchLen == 3

EchBytes == <<254, 13, 0, 65, 255>>

EchValues ==
    {SubSeq(EchBytes, 1, n) : n \in 1..MaxEchLen}

\* the header of a response with one question and an answers
DnsHeader(an) ==
    <<0, 1, 129, 128, 0, 1, an \div 256, an % 256, 0, 0, 0, 0>>

\* the question as buildDNSQuery writes it, for the domain "a": the name in
\* labels, the type HTTPS, the class IN
Question ==
    <<1, 97, 0>> \o <<TypeHTTPS \div 256, TypeHTTPS % 256, 0, 1>>

\* the owner names of the answers: a pointer to the question's name, a name
\* in labels, and labels that end in such a pointer
NamePointer == <<192, 12>>

NameLabels == <<1, 98, 0>>

NameLabelsPointer == <<1, 98, 192, 12>>

\* a resource record: name, type, class IN, a TTL, the length of the data,
\* the data
RR(name, type, rdata) ==
    name \o <<type \div 256, type % 256, 0, 1, 0, 0, 1, 44,
              Len(rdata) \div 256, Len(rdata) % 256>> \o rdata

\* a SvcParam: key, length of the value, value
SvcParam(p) ==
    <<p.key \div 256, p.key % 256, Len(p.val) \div 256, Len(p.val) % 256>>
        \o p.val

RECURSIVE SvcParamList(_)
SvcParamList(ps) ==
    IF ps = <<>> THEN <<>> ELSE SvcParam(Head(ps)) \o SvcParamList(Tail(ps))

\* the data of an HTTPS record: priority 1, target name, SvcParams
HttpsData(target, ps) ==
    <<0, 1>> \o target \o SvcParamList(ps)

Alpn == [key |-> 1, val |-> <<2, 104, 50>>]

NoDefaultAlpn == [key |-> 2, val |-> <<>>]

Port == [key |-> 3, val |-> <<1, 187>>]

Ipv6Hint == [key |-> 6, val |-> <<32, 1, 13, 184>>]

Ech(v) == [key |-> KeyECH, val |-> v]

\* an answer: its owner name, its type, and its data as bytes
Answer(name, type, rdata) ==
    [name |-> name, type |-> type, rdata |-> rdata]

\* the records that may come before the HTTPS record with the ECH parameter
Preceding ==
    {<<>>,
     <<Answer(NamePointer, 5, <<1, 99, 192, 12>>)>>,
     <<Answer(NameLabels, 1, <<10, 0, 0, 1>>)>>,
     <<Answer(NameLabelsPointer, 5, <<1, 99, 0>>)>>,
     <<Answer(NamePointer, TypeHTTPS, HttpsData(<<0>>, <<Alpn>>))>>}

\* the SvcParams that may come before the ECH parameter, keys ascending
ParamsBefore ==
    {<<>>, <<Alpn>>, <<Port>>, <<Alpn, Port>>, <<Alpn, NoDefaultAlpn>>}

ParamsAfter ==
    {<<>>, <<Ipv6Hint>>}

Targets ==
    {<<0>>, <<1, 100, 0>>}

\* A response is known by its answers and by the ECH value it carries
\* (<<>>: none).
Responses ==
    {[answers |-> <<>>, ech |-> <<>>]}
    \cup {[answers |-> pre \o <<Answer(NamePointer, TypeHTTPS,
                            HttpsData(t, before \o <<Ech(v)>> \o after))>>,
           ech |-> v] :
             pre \in Preceding, t \in Targets, before \in ParamsBefore,
             v \in EchValues, after \in ParamsAfter}

RECURSIVE AnswerBytes(_)
AnswerBytes(as) ==
    IF as = <<>> THEN <<>>
    ELSE RR(Head(as).name, Head(as).type, Head(as).rdata)
             \o AnswerBytes(Tail(as))

\* the bytes of the response on the wire
Wire(m) ==
    DnsHeader(Len(m.answers)) \o Question \o AnswerBytes(m.answers)

NotParsed ==
    [err |-> "none", val |-> <<>>, oob |-> FALSE]

ParseIdle ==
    /\ dnsMsg = [answers |-> <<>>, ech |-> <<>>]
    /\ cut = 0
    /\ parsed = NotParsed

\* a response, whole or cut short at any length
ParseInit ==
    /\ dnsMsg \in Responses
    /\ cut \in 0..Len(Wire(dnsMsg))
    /\ parsed = NotParsed

\* queryDoH hands the body it read to parseDNSResponse
Parse ==
    /\ parsed = NotParsed
    /\ parsed' = parseDNSResponse(SubBuf(Wire(dnsMsg), 0, cut))
    /\ UNCHANGED <<dnsMsg, cut, svars, echList, evars, dvars, fvars>>

ParseNext ==
    Parse

\* =============================================================== DialWithECH

\* the largest maxRetries a caller passes
MaxRetriesArg == 3

\* time.Sleep(500 * time.Millisecond) after a failed build
BuildRetryDelay == 500
\* time.Sleep(time.Second) after a failed dial
DialRetryDelay == 1000

\* An error is known by the substrings of its message that the dial loop
\* looks for: "ECH_config" stands for the substring of GetECHList's message
\* that the build test looks for, "ECH_not_found" for the other one.
NoError == {}

\* errors.New of GetECHList: its message holds the first build substring,
\* and with it "ECH"
ErrNotLoaded == {"ECH_config", "ECH"}

\* fmt.Errorf of BuildTLSConfig when the system roots cannot be loaded
ErrRoots == {}

\* what dialer.Dial may raise
DialErrors == SUBSET {"ECH", "encrypted"}

\* a build test that looks for the second substring only
BuildRetryableNotFoundOnly(msg) ==
    "ECH_not_found" \in msg

BuildRetryable(msg) ==
    "ECH_config" \in msg \/ "ECH_not_found" \in msg

\* a dial test that takes every message for an ECH-related one
DialRetryableAlways(msg) ==
    TRUE

DialRetryable(msg) ==
    "ECH" \in msg \/ "encrypted" \in msg

\* BuildTLSConfig: the error it returns (NoError: a config)
BuildTLSConfig(list, rootsOk) ==
    IF GetECHListAlone(list).err # "nil"
    THEN ErrNotLoaded
    ELSE IF ~rootsOk THEN ErrRoots ELSE NoError

\* a loop that retries on its last attempt too
MayRetryAlways(a, max) ==
    a <= max

\* `attempt < maxRetries`
MayRetry(a, max) ==
    a < max

DialInit ==
    /\ maxRetries \in 0..MaxRetriesArg
    /\ addrOk \in BOOLEAN
    /\ echList \in {NilSlice} \cup {Slice(b) : b \in Blobs}
    /\ attempt = 0
    /\ dpc = "start"
    /\ dRes = [kind |-> "none", err |-> NoError]
    /\ lastErr = [at |-> 0, msg |-> NoError]
    /\ refreshes = 0
    /\ dlog = <<>>
    /\ delays = <<>>

\* the dial loop at rest, for the specifications of the other components
DialIdle ==
    /\ maxRetries = 0
    /\ addrOk = TRUE
    /\ attempt = 0
    /\ dpc = "start"
    /\ dRes = [kind |-> "none", err |-> NoError]
    /\ lastErr = [at |-> 0, msg |-> NoError]
    /\ refreshes = 0
    /\ dlog = <<>>
    /\ delays = <<>>

Return(kind, err) ==
    /\ dpc' = "done"
    /\ dRes' = [kind |-> kind, err |-> err]

\* the head of the for loop with attempt = a: the next build, or the return
\* after the loop
LoopHead(a, last) ==
    /\ attempt' = a
    /\ IF a <= maxRetries
       THEN /\ dpc' = "build"
            /\ UNCHANGED dRes
       ELSE Return("errExhausted", last.msg)

\* c.echManager.Refresh(); time.Sleep(d); continue
RefreshAndRetry(o, d, err) ==
    /\ echList' = PrepareAlone(echList, o)
    /\ refreshes' = refreshes + 1
    /\ delays' = Append(delays, d)
    /\ LoopHead(attempt + 1, err)

\* DialWithECH, to the head of its loop
DialEnter ==
    /\ dpc = "start"
    /\ IF addrOk
       THEN LoopHead(1, lastErr)
       ELSE /\ Return("errParse", NoError)
            /\ UNCHANGED attempt
    /\ UNCHANGED <<maxRetries, addrOk, lastErr, refreshes, dlog, delays,
                   echList, evars, svars, fvars, pvars>>

\* one BuildTLSConfig and what the loop does with its error
DialBuild ==
    /\ dpc = "build"
    /\ \E rootsOk \in BOOLEAN, o \in PrepareOutcomes :
          LET tlsErr == BuildTLSConfig(echList, rootsOk)
              err == [at |-> attempt, msg |-> tlsErr]
          IN  IF tlsErr = NoError
              THEN /\ dpc' = "dial"
                   /\ UNCHANGED <<attempt, dRes, lastErr, refreshes, dlog,
                                  delays, echList>>
              ELSE /\ lastErr' = err
                   /\ dlog' = Append(dlog, IF tlsErr = ErrNotLoaded
                                           THEN "build_ech" ELSE "build_fatal")
                   /\ IF MayRetry(attempt, maxRetries) /\ BuildRetryable(tlsErr)
                      THEN RefreshAndRetry(o, BuildRetryDelay, err)
                      ELSE /\ Return("errBuild", tlsErr)
                           /\ UNCHANGED <<attempt, refreshes, delays, echList>>
    /\ UNCHANGED <<maxRetries, addrOk, evars, svars, fvars, pvars>>

\* one dialer.Dial and what the loop does with its error
DialDial ==
    /\ dpc = "dial"
    /\ \E ok \in BOOLEAN, dialErr \in DialErrors, o \in PrepareOutcomes :
          LET err == [at |-> attempt, msg |-> dialErr]
          IN  IF ok
              THEN /\ Return("conn", NoError)
                   /\ dlog' = Append(dlog, "ok")
                   /\ UNCHANGED <<attempt, lastErr, refreshes, delays, echList>>
              ELSE /\ lastErr' = err
                   /\ dlog' = Append(dlog, IF dialErr # NoError
                                           THEN "dial_ech" ELSE "dial_fatal")
                   /\ IF MayRetry(attempt, maxRetries) /\ DialRetryable(dialErr)
                      THEN RefreshAndRetry(o, DialRetryDelay, err)
                      ELSE /\ Return("errDial", dialErr)
                           /\ UNCHANGED <<attempt, refreshes, delays, echList>>
    /\ UNCHANGED <<maxRetries, addrOk, evars, svars, fvars, pvars>>

DialNext ==
    \/ DialEnter
    \/ DialBuild
    \/ DialDial

\* =========================================================== specifications

vars == <<svars, echList, evars, dvars, fvars, pvars>>

\* the edge session
Init ==
    /\ SessionInit
    /\ FetchIdle
    /\ ParseIdle
    /\ echList = NilSlice
    /\ StoreInit
    /\ DialIdle

Next == SessionNext

Spec == Init /\ [][Next]_vars

\* goroutines calling Prepare and GetECHList on one ECHManager
StoreSpecInit ==
    /\ SessionInit
    /\ FetchIdle
    /\ ParseIdle
    /\ echList = NilSlice
    /\ StoreInit
    /\ DialIdle

StoreSpec == StoreSpecInit /\ [][StoreNext]_vars

\* one call of DialWithECH
DialSpecInit ==
    /\ SessionInit
    /\ FetchIdle
    /\ ParseIdle
    /\ StoreInit
    /\ DialInit

DialSpec == DialSpecInit /\ [][DialNext]_vars

\* one call of DialWithECH in which every call it makes returns: a step that
\* can be taken is taken
DialLiveSpec == DialSpecInit /\ [][DialNext]_vars /\ WF_vars(DialNext)

\* one request to the relay endpoint
FetchSpecInit ==
    /\ SessionInit
    /\ echList = NilSlice
    /\ StoreInit
    /\ DialIdle
    /\ FetchInit
    /\ ParseIdle

FetchSpec == FetchSpecInit /\ [][FetchNext]_vars

\* one response handed to the parser
ParseSpecInit ==
    /\ SessionInit
    /\ echList = NilSlice
    /\ StoreInit
    /\ DialIdle
    /\ FetchIdle
    /\ ParseInit

ParseSpec == ParseSpecInit /\ [][ParseNext]_vars

\* ------------------------------------------------------------ the claims

SessionState ==
    <<remoteSocket, remoteWriter, remoteReader, isClosed, isConnecting,
      connectionAttempts, wsState, wsOut, tasks, nSock, openSocks, hist>>

TeardownTriggers ==
    {"close_frame", "close_event", "error_event", "connect_invalid",
     "connect_rejected", "connect_failed", "data_failed", "pump_done",
     "pump_ws_gone", "pump_give_up", "pump_reader_lost"}

\* C1: whatever triggers teardown and however often, cleanup's body (release
\* of the outbound handles, close of the outbound socket, close of the
\* WebSocket) has run exactly once in a session that any trigger has reached,
\* and never more than once: the WebSocket is closed at most once, and a
\* session is closed exactly when the body has run.
C1_TeardownOnce ==
    /\ hist.teardowns <= 1
    /\ hist.wsCloses <= hist.teardowns
    /\ isClosed <=> hist.teardowns = 1
    /\ lastOp \in TeardownTriggers => hist.teardowns = 1
    /\ isClosed => /\ remoteSocket = NoHandle => openSocks = {}
                   /\ wsState # 1

\* C1 witness: a closed session on which cleanup was called again, by the
\* close event, after the teardown had run.
C1_Witness ==
    /\ hist.teardowns = 1
    /\ hist.noopCleanup
    /\ lastOp = "close_event"

\* C2: a CONNECT that connectToRemote rejects yields the error and leaves
\* the outbound socket, the handles and the session state as they were; the
\* session is not torn down.
C2_SecondConnectHarmless ==
    [][lastOp' = "connect_rejected" =>
          /\ ~isClosed'
          /\ UNCHANGED <<remoteSocket, remoteWriter, remoteReader,
                         isConnecting, openSocks, tasks>>]_vars

\* C3: at most one outbound socket is open, and it is the one opened last
\* and held in remoteSocket: connect() is called only when every socket
\* opened before is closed, so a failed primary attempt is closed before
\* the fallback is opened; and at most one connectToRemote is in progress.
ConnTasks ==
    {n \in DOMAIN tasks : tasks[n].k = "conn"}

C3_OneOutbound ==
    /\ Cardinality(openSocks) <= 1
    /\ openSocks \subseteq {nSock}
    /\ openSocks \subseteq {remoteSocket}
    /\ Cardinality(ConnTasks) <= 1

\* C3 witness: the fallback socket is open and the primary one is closed.
C3_Witness ==
    /\ nSock = 2
    /\ openSocks = {2}
    /\ remoteSocket = 2

PumpGivesUp ==
    {"pump_give_up", "pump_reader_lost"}

\* C4 as stated: the pump is restarted at most 3 times, and when it gives
\* up on an open session CLOSE reaches the peer and the session is closed.
C4_GiveUpSendsClose ==
    /\ [](hist.restarts <= MaxRestarts)
    /\ [][lastOp' \in PumpGivesUp /\ ~isClosed =>
             /\ wsOut' = Append(wsOut, "CLOSE")
             /\ isClosed']_vars

\* C4 amended: the pump is restarted at most 3 times; when it gives up on a
\* session that is not closed (a read error after 3 restarts, or no reader
\* to be had after the backoff) it calls send('CLOSE'), which reaches the
\* peer exactly when the WebSocket is still open, and the session is closed
\* by that same step.
C4_GiveUpCloses ==
    /\ [](hist.restarts <= MaxRestarts /\ connectionAttempts <= MaxRestarts)
    /\ [][lastOp' \in PumpGivesUp /\ ~isClosed =>
             /\ isClosed'
             /\ hist'.teardowns = hist.teardowns + 1
             /\ wsOut' = IF wsState = 1 THEN Append(wsOut, "CLOSE") ELSE wsOut
             /\ lastOp' = "pump_give_up" => connectionAttempts = MaxRestarts]_vars

\* C4 witness: the pump gave up after 3 restarts and CLOSE was the last
\* frame to the peer.
C4_Witness ==
    /\ lastOp = "pump_give_up"
    /\ hist.restarts = MaxRestarts
    /\ isClosed
    /\ wsOut # <<>>
    /\ wsOut[Len(wsOut)] = "CLOSE"

\* k failed builds, each with the message of a list that is not loaded
BuildFailures(k) ==
    [n \in 1..k |-> "build_ech"]

\* C5: when the first k builds (k < maxRetries) fail with the ECH-related
\* message, Refresh has been called exactly k times once the k-th failure
\* is handled, and if the next build and the dial then succeed DialWithECH
\* returns the connection at attempt k + 1 with Refresh called exactly k
\* times (maxRetries = 3, k = 2: two calls).
C5_RefreshPerEchFailure ==
    \A k \in 0..(maxRetries - 1) :
        /\ dlog = BuildFailures(k) =>
               /\ refreshes = k
               /\ Len(delays) = k
               /\ k > 0 => dpc \in {"build", "dial"} /\ attempt = k + 1
        /\ dlog = BuildFailures(k) \o <<"ok">> =>
               /\ dpc = "done"
               /\ dRes.kind = "conn"
               /\ attempt = k + 1
               /\ refreshes = k

\* C5 witness: maxRetries = 3, two ECH-related build failures, then the
\* build and the dial succeed.
C5_Witness ==
    /\ maxRetries = 3
    /\ dlog = <<"build_ech", "build_ech", "ok">>
    /\ dRes.kind = "conn"
    /\ refreshes = 2

\* C6: when each of the maxRetries attempts has failed with an ECH-related
\* error, DialWithECH returns the error of the exhausted loop, carrying the
\* error of the last attempt.
C6_ExhaustionIsDialExhausted ==
    (/\ dpc = "done"
     /\ maxRetries >= 1
     /\ Len(dlog) = maxRetries
     /\ \A n \in DOMAIN dlog : dlog[n] \in {"build_ech", "dial_ech"})
    => /\ dRes.kind = "errExhausted"
       /\ dRes.err = lastErr.msg
       /\ lastErr.at = maxRetries

InRead(r) ==
    epc[r] \in {"r_check", "r_ptr", "r_len", "runlock"}

InWrite(w) ==
    epc[w] \in {"w_ptr", "w_len", "unlock"}

\* C7: whatever the interleaving of GetECHList and Prepare, every value
\* GetECHList returns is the whole slice of a blob some Prepare has stored
\* and released the lock on; while a reader holds the lock no writer is
\* inside Prepare's critical section and the list is nil or such a whole
\* slice, and the value about to be returned is the list as it stands.
C7_ReadersSeeWholeValues ==
    /\ returned \subseteq stored
    /\ stored \subseteq {Slice(b) : b \in Blobs}
    /\ \A r \in Readers :
          InRead(r) =>
              /\ \A w \in Writers : ~InWrite(w)
              /\ echList \in stored \cup {NilSlice}
              /\ epc[r] = "runlock" => eloc[r] = echList

\* C7 witness: the prior and the replaced value have both been returned,
\* a reader is about to return while a writer waits for the lock.
C7_Witness ==
    /\ Cardinality(returned) = 2
    /\ \E r \in Readers : epc[r] = "runlock" /\ eloc[r] = Slice(2)
    /\ \E w \in Writers : epc[w] = "lock" /\ eloc[w] = Slice(1)

\* C8: one CONNECT makes at most two calls of connect(); the second is made
\* only when a fallback host was supplied and the primary attempt failed
\* with an edge-platform error; a primary attempt that fails otherwise is
\* the last one; and when every attempt has failed the CONNECT has failed
\* and the session holds no outbound socket.
C8_FallbackOnce ==
    /\ hist.connCalls <= 2
    /\ hist.connCalls = 2 => hist.fbSupplied /\ hist.primaryFail = "cf"
    /\ hist.primaryFail = "other" => hist.connCalls = 1
    /\ hist.attemptFails <= hist.connCalls
    /\ (hist.attemptFails = 2 \/ hist.primaryFail = "other"
          \/ (hist.attemptFails = 1 /\ ~hist.fbSupplied))
           => hist.connResult = "failed"
    /\ hist.connResult = "failed" =>
           /\ isClosed
           /\ ~isConnecting
           /\ openSocks = {}
           /\ ConnTasks = {}

\* C8 witness: the primary attempt failed with an edge-platform error, the
\* fallback was tried and failed too.
C8_Witness ==
    /\ hist.connCalls = 2
    /\ hist.attemptFails = 2
    /\ hist.connResult = "failed"
    /\ nSock = 2

HandlerErrors ==
    {"connect_invalid", "connect_rejected", "connect_failed", "data_failed"}

\* C9 as stated: every error raised while a message is handled puts an
\* ERROR frame on the WebSocket and then closes the session.
C9_ErrorAlwaysReported ==
    [][lastOp' \in HandlerErrors =>
          /\ wsOut' = Append(wsOut, "ERROR")
          /\ isClosed']_vars

\* C9 amended: every error raised while a message is handled leaves the
\* session closed; the ERROR frame reaches the peer exactly when the
\* WebSocket is still open as the error is raised, and then it is sent
\* before the WebSocket is closed by the teardown of that same step.  When
\* the WebSocket is no longer open (the session was torn down, or the peer
\* closed, while the handler was suspended) no frame is sent.
C9_ErrorReportedWhileOpen ==
    [][lastOp' \in HandlerErrors =>
          /\ isClosed'
          /\ wsState = 1 =>
                /\ wsOut' = Append(wsOut, "ERROR")
                /\ ~isClosed
                /\ hist'.teardowns = hist.teardowns + 1
                /\ hist'.wsCloses = hist.wsCloses + 1
                /\ wsState' = 2
          /\ wsState # 1 => wsOut' = wsOut]_vars

\* C9 witness: an outbound write failed on an open session; ERROR is the
\* last frame and the session is closed.
C9_Witness ==
    /\ lastOp = "data_failed"
    /\ isClosed
    /\ hist.wsCloses = 1
    /\ wsOut # <<>>
    /\ wsOut[Len(wsOut)] = "ERROR"

\* C10: a DATA or binary frame handled while there is no outbound writer
\* changes nothing (no write, no frame to the peer, no teardown, the same
\* state); with a writer, exactly one write is issued on it and nothing is
\* sent to the peer.
C10_DataWithoutWriter ==
    [][/\ lastOp' = "data_ignored" =>
             /\ remoteWriter = NoHandle
             /\ UNCHANGED SessionState
       /\ lastOp' = "data_write" =>
             /\ remoteWriter # NoHandle
             /\ hist'.nWrites = hist.nWrites + 1
             /\ Len(tasks') = Len(tasks) + 1
             /\ UNCHANGED <<remoteSocket, remoteWriter, remoteReader, isClosed,
                            wsState, wsOut, openSocks>>]_vars

\* C10 witness: a DATA frame was ignored while the CONNECT was still waiting
\* for the outbound socket to open.
C10_Witness ==
    /\ lastOp = "data_ignored"
    /\ isConnecting
    /\ remoteSocket # NoHandle
    /\ remoteWriter = NoHandle
    /\ hist.nWrites = 0
    /\ ~isClosed

BackoffOver ==
    {"pump_restart", "pump_reader_lost", "pump_abort"}

PumpTasks ==
    {n \in DOMAIN tasks : tasks[n].k = "pump"}

\* C14: when the pump comes back from its restart backoff on a session that
\* was torn down meanwhile, it ends there: no reader is acquired, the read
\* loop is not entered again, no frame (no CLOSE) goes to the peer, cleanup
\* is not run or even called again, and nothing of the session changes but
\* the pump's own end.  And a session that is torn down holds no socket for
\* a waiting pump to come back to.
C14_BackoffAbortsAfterTeardown ==
    /\ [](isClosed /\ PumpTasks # {} => remoteSocket = NoHandle)
    /\ [][lastOp' \in BackoffOver /\ isClosed =>
             /\ lastOp' = "pump_abort"
             /\ Len(tasks') = Len(tasks) - 1
             /\ \A n \in DOMAIN tasks' : tasks'[n].k # "pump"
             /\ UNCHANGED <<remoteSocket, remoteWriter, remoteReader, isClosed,
                            isConnecting, connectionAttempts, wsState, wsOut,
                            nSock, openSocks, hist>>]_vars

\* C14 witness: a CLOSE frame tore the session down while the pump was in
\* its backoff, and the pump has come back and ended.
C14_Witness ==
    /\ lastOp = "pump_abort"
    /\ isClosed
    /\ hist.teardowns = 1
    /\ connectionAttempts = 1
    /\ hist.restarts = 0
    /\ remoteReader = NoHandle
    /\ PumpTasks = {}

C16_BoundedAttemptsAndTermination ==
    /\ [](maxRetries >= 1 =>
             /\ attempt <= maxRetries
             /\ Len(dlog) <= maxRetries
             /\ refreshes <= maxRetries - 1
             /\ Len(delays) = refreshes
             /\ dpc \in {"build", "dial"} =>
                    refreshes = attempt - 1 /\ Len(dlog) = attempt - 1)
    /\ [][dpc = "build" => attempt \in 1..maxRetries]_vars
    /\ <>[](/\ dpc = "done"
            /\ dRes.kind \in {"conn", "errParse", "errBuild", "errDial",
                              "errExhausted"}
            /\ dRes.kind = "conn" <=>
                  (dlog # <<>> /\ dlog[Len(dlog)] = "ok"))

\* C16 witness: maxRetries = 3 and every attempt was used: three builds,
\* two Refresh calls, and the call has ended.
C16_Witness ==
    /\ maxRetries = 3
    /\ dpc = "done"
    /\ Len(dlog) = 3
    /\ attempt = 3
    /\ refreshes = 2

\* C17: the delay waited after an ECH-related failure grows with the attempt
\* number: when attempts n and n + 1 end with the same kind of failure and
\* both are retried, the delay after attempt n + 1 is strictly greater than
\* the delay after attempt n.  (delays[n] is the Sleep after attempt n, and
\* dlog[n] is how attempt n ended.)
C17_DelayGrowsWithAttempt ==
    \A n \in DOMAIN delays :
        (n + 1 \in DOMAIN delays /\ dlog[n] = dlog[n + 1])
            => delays[n] < delays[n + 1]

Sent(out, frame) ==
    Cardinality({n \in DOMAIN out : out[n] = frame})

\* CONNECTED goes to the peer at most once, and before every binary frame
BinAfterConnected ==
    /\ Sent(wsOut, "CONNECTED") <= 1
    /\ \A n \in DOMAIN wsOut :
          wsOut[n] = "BIN" => \E m \in 1..(n - 1) : wsOut[m] = "CONNECTED"

\* the step that sends CONNECTED
RepliesConnected ==
    Sent(wsOut', "CONNECTED") > Sent(wsOut, "CONNECTED")

\* C18 as stated: CONNECTED is sent at most once, after the outbound socket
\* has opened and before any binary frame; and the order on success is
\* CONNECTED, then the write of firstFrame, then the pump: firstFrame is
\* written only once CONNECTED has been sent.
C18_ConnectedThenFirstFrame ==
    /\ []BinAfterConnected
    /\ [][lastOp' = "first_frame_write" => Sent(wsOut', "CONNECTED") = 1]_vars
    /\ [][RepliesConnected => PumpTasks' # {}]_vars

\* C18 amended: CONNECTED is sent at most once, before any binary frame, and
\* only by the connectToRemote that resumes with the outbound socket open,
\* writer and reader held and, when the CONNECT carried a firstFrame, with
\* the write of firstFrame completed: the order on success is write
\* firstFrame, reply CONNECTED, start the pump, all but the write in one
\* step.  While firstFrame is being written nothing has been replied.
C18_FirstFrameThenConnected ==
    /\ []BinAfterConnected
    /\ [][lastOp' = "first_frame_write" =>
             /\ Sent(wsOut', "CONNECTED") = 0
             /\ wsOut' = wsOut
             /\ PumpTasks' = {}
             /\ remoteWriter' = remoteSocket' /\ remoteSocket' \in openSocks']_vars
    /\ [][RepliesConnected =>
             /\ \E n \in DOMAIN tasks :
                   /\ tasks[n].k = "conn"
                   /\ tasks[n].pc = IF tasks[n].ff THEN "write" ELSE "opened"
                   /\ tasks[n].ff => hist.nWrites >= 1
             /\ lastOp' = "connected"
             /\ wsOut' = Append(wsOut, "CONNECTED")
             /\ remoteSocket \in openSocks
             /\ remoteSocket' = remoteSocket
             /\ remoteWriter' = remoteSocket /\ remoteReader' = remoteSocket
             /\ ~isConnecting' /\ ~isClosed'
             /\ \A n \in DOMAIN tasks' : tasks'[n].k # "conn"
             /\ PumpTasks = {} /\ PumpTasks' # {}]_vars

\* C18 witness: a CONNECT with a firstFrame succeeded: the write came first,
\* then CONNECTED, then the pump forwarded a chunk.
C18_Witness ==
    /\ wsOut = <<"CONNECTED", "BIN">>
    /\ hist.nWrites = 1
    /\ hist.connResult = "ok"
    /\ PumpTasks # {}

\* C19: once teardown has run, the session neither holds nor opens an
\* outbound socket: in every closed state the socket, writer and reader
\* handles are cleared and no socket the session opened is open, and no step
\* of a closed session calls connect() (a connectToRemote resumed after the
\* teardown makes no further attempt, the fallback one included).
C19_NoSocketAfterTeardown ==
    /\ [](isClosed =>
             /\ remoteSocket = NoHandle
             /\ remoteWriter = NoHandle
             /\ remoteReader = NoHandle
             /\ openSocks = {})
    /\ [][isClosed => nSock' = nSock /\ openSocks' = openSocks]_vars

\* C20: a Prepare (or Refresh, which is Prepare) that fails - the resolver's
\* error, an empty answer, a decode failure - leaves the store as it was:
\* across the failing call the list is the same, GetECHList answers the same
\* value or the same not-loaded error, and the lock is not touched.  The
\* list changes only in the steps of a Prepare that decoded a blob and holds
\* the lock, towards that blob.  Run alone, a failing Prepare is the identity
\* on the list and a successful one stores the blob whatever was there.
C20_FailedPrepareKeepsList ==
    /\ [][\A w \in Writers :
              epc[w] = "idle" /\ epc'[w] = "failed" =>
                  /\ echList' = echList
                  /\ GetECHListAlone(echList') = GetECHListAlone(echList)
                  /\ wlock' = wlock /\ rlocks' = rlocks
                  /\ stored' = stored]_vars
    /\ [][echList' # echList =>
              \E w \in Writers :
                  /\ epc[w] \in {"w_ptr", "w_len"}
                  /\ wlock
                  /\ eloc[w] \in {Slice(b) : b \in Blobs}
                  /\ echList' \in {[echList EXCEPT !.ptr = eloc[w].ptr],
                                   [echList EXCEPT !.len = eloc[w].len]}]_vars
    /\ [](\A o \in PrepareOutcomes :
              /\ o.kind # "blob" => PrepareAlone(echList, o) = echList
              /\ o.kind = "blob" => PrepareAlone(echList, o) = Slice(o.blob))

\* C20 witness: a Prepare has failed on a store that holds blob 1, which is
\* still the list, while no other Prepare is under way.
C20_Witness ==
    /\ echList = Slice(1)
    /\ stored = {Slice(1)}
    /\ epc["w1"] = "failed"
    /\ epc["w2"] = "idle"

\* the request names the root path
RootPath(r) ==
    r.url.path \in {"", "/"}

\* C11: the response is determined by the request: a request that does not
\* ask for the websocket protocol gets 200 on the root path and 426 on any
\* other, with no session; one that asks for it with a Sec-WebSocket-Protocol
\* header that is missing or is not the token gets 401 and no session; any
\* other gets 101 with the client end of the pair, the token as the
\* negotiated subprotocol, and exactly one session started.
C11_ResponseByRequest ==
    response # NoResponse =>
        /\ response.status \in {200, 426, 401, 101}
        /\ (~AsksWebsocket(request) /\ RootPath(request)) =>
               response = Response(200) /\ sessions = 0
        /\ (~AsksWebsocket(request) /\ ~RootPath(request)) =>
               response = Response(426) /\ sessions = 0
        /\ (AsksWebsocket(request) /\ request.protocol # TOKEN) =>
               response = Response(401) /\ sessions = 0
        /\ (AsksWebsocket(request) /\ request.protocol = TOKEN) =>
               /\ response.status = 101
               /\ response.protocol = TOKEN
               /\ response.webSocket
               /\ sessions = 1

\* C11 witness: an upgrade request whose Upgrade header is in capitals, with
\* the token, on a path other than the root, was answered 101 and one
\* session was started.
C11_Witness ==
    /\ response.status = 101
    /\ sessions = 1
    /\ request.upgrade = Header(<<"W", "E", "B", "S", "O", "C", "K", "E", "T">>)
    /\ request.url.path = "/ws"
    /\ request.protocol = TOKEN

\* the whole response reached the parser and has been parsed
ParsedWhole ==
    parsed # NotParsed /\ cut = Len(Wire(dnsMsg))

\* C12: for a whole response that carries an HTTPS record with the ECH
\* parameter (key 5), parseDNSResponse returns no error and exactly the
\* base64 encoding of that parameter's value, whatever answers (with names
\* in labels, pointers, or labels ending in a pointer) come before the
\* record and whatever SvcParams (with or without a value) come before the
\* parameter.
C12_EchValueReturned ==
    (ParsedWhole /\ dnsMsg.ech # <<>>) =>
        /\ parsed.err = "nil"
        /\ parsed.val = Base64(dnsMsg.ech)

\* C13: whatever response is cut short at whatever length, parseDNSResponse
\* and parseHTTPSRecord make no read at or beyond the length of the buffer
\* they read (the response, the data of a record): parsing ends with the
\* too-short or the no-answers error, or with a result, found or not.
C13_NoReadOutsideBuffer ==
    parsed # NotParsed =>
        /\ ~parsed.oob
        /\ parsed.err \in {"nil", "too_short", "no_answers"}
        /\ cut < 12 <=> parsed.err = "too_short"
        /\ parsed.err # "nil" => parsed.val = <<>>

\* C13 witness: a response that carries an ECH parameter lost its last byte;
\* the parser ended with nothing found and no error.
C13_Witness ==
    /\ parsed # NotParsed
    /\ dnsMsg.ech # <<>>
    /\ Len(dnsMsg.answers) = 2
    /\ cut = Len(Wire(dnsMsg)) - 1
    /\ parsed.err = "nil"
    /\ parsed.val = <<>>

====
